---- MODULE Spec2Model ----
(***************************************************************************)
(* Model of the transaction ledger of src/app.py: the Transaction value    *)
(* object and the ExpenseDatabase store (one SQLite table `transactions`). *)
(* Every ExpenseDatabase method is one action; the SQL statements are      *)
(* modelled by what SQLite does with them (AUTOINCREMENT, CHECK, NOT NULL, *)
(* ORDER BY, LIMIT, the write lock of an open transaction).                *)
(***************************************************************************)
EXTENDS Integers, Sequences, FiniteSets, TLC

VARIABLES
    table,      \* rows of the table `transactions`
    seq,        \* sqlite_sequence.seq of the table: the largest id ever assigned
    now,        \* the wall clock that datetime.now() reads
    locked,     \* a connection leaked by a failed write still holds the write lock
    issued,     \* history: ids returned by add_transaction so far
    last        \* the last call: its arguments and what it returned or raised

vars == <<table, seq, now, locked, issued, last>>

----------------------------------------------------------------------------
(* Bounds of the model *)

MaxId == 2          \* rows ever inserted under Spec
MaxEdited == 1      \* rows ever inserted under SpecFields
MaxListed == 3      \* rows ever inserted under SpecList
MaxNow == 2         \* clock readings 1..MaxNow
MaxSummed == 3      \* rows ever inserted under SpecSummary
MaxStamped == 2     \* rows ever inserted under SpecStamp
MaxInvalid == 2     \* rows ever inserted under SpecInvalid

(* Values of the columns.  A date is the number of a calendar day, ordered *)
(* as its ISO string is; EmptyDate is the empty string / None, the only    *)
(* falsy date.  A timestamp is a clock reading; NoStamp is None.           *)
EmptyDate == 0
NoStamp == 0
NoId == 0
NoLimit == -1

\* An amount that is not a number, such as the text 'abc': float() raises
\* ValueError for it, the column `amount REAL` stores it as text.
NotANumber == 999
Numeric(amount) == amount # NotANumber

Kinds == {"income", "expense", "bogus"}
ValidKinds == {"income", "expense"}
Amounts == {-5, 10}
Categories == {"Food", "Salary", "Rent"}
Descriptions == {"", "lunch", "edited"}
Dates == {EmptyDate, 1, 2, 3}
Ids(cap) == 1..(cap + 1)
Limits == {NoLimit, 0, 1, 2}

\* datetime.now().date(): the clock is read at the granularity of a day.
Today(t) == t

----------------------------------------------------------------------------
(* class Transaction *)

\* Transaction.__init__: a falsy date becomes today's date, a falsy
\* created_at becomes the current time, amount goes through float().
Transaction(id, type, amount, category, description, date, created_at, t) ==
    [id |-> id, type |-> type, amount |-> amount, category |-> category,
     description |-> description,
     date |-> IF date = EmptyDate THEN Today(t) ELSE date,
     created_at |-> IF created_at = NoStamp THEN t ELSE created_at]

NoTx == [id |-> NoId, type |-> "", amount |-> 0, category |-> "",
         description |-> "", date |-> EmptyDate, created_at |-> NoStamp]

FromRowRestamped(row, t) ==
    Transaction(row.id, row.type, row.amount, row.category, row.description,
                row.date, NoStamp, t)

\* The Transaction built from a fetched row (get_all_transactions,
\* get_transaction_by_id).
FromRow(row, t) ==
    Transaction(row.id, row.type, row.amount, row.category, row.description,
                row.date, row.created_at, t)

----------------------------------------------------------------------------
(* The table `transactions` *)

CheckTypeOff(type) == TRUE

\* CHECK(type IN ('income', 'expense'))
CheckType(type) == type \in {"income", "expense"}

\* Without AUTOINCREMENT the next rowid is one more than the largest id the
\* table holds now.
NextRowIdReused ==
    IF table = {} THEN 1
    ELSE 1 + (CHOOSE m \in {r.id : r \in table} : \A r \in table : r.id <= m)

\* id INTEGER PRIMARY KEY AUTOINCREMENT: one more than the largest id the
\* table has ever held.
NextRowId == seq + 1

RowOf(id) == CHOOSE r \in table : r.id = id
Exists(id) == \E r \in table : r.id = id

BeforeAscending(a, b) ==
    \/ a.date < b.date
    \/ a.date = b.date /\ a.created_at > b.created_at

\* ORDER BY date DESC, created_at DESC
Before(a, b) ==
    \/ a.date > b.date
    \/ a.date = b.date /\ a.created_at > b.created_at

InOrder(s) == \A i, j \in 1..Len(s) : i < j => ~Before(s[j], s[i])

RECURSIVE Listings(_)
Listings(S) ==
    IF S = {} THEN {<<>>}
    ELSE UNION {{<<r>> \o s : s \in Listings(S \ {r})} : r \in S}

\* The result sets the SELECT may produce: rows that tie on both keys come
\* in an order SQL leaves open.
Ordered(S) == {s \in Listings(S) : InOrder(s)}

Min(a, b) == IF a < b THEN a ELSE b

\* `if limit: query += LIMIT limit`
Limited(s, limit) ==
    IF limit = NoLimit \/ limit = 0 THEN s
    ELSE SubSeq(s, 1, Min(limit, Len(s)))

----------------------------------------------------------------------------
(* The aggregate queries *)

\* `amount` without SUM: the amount of one row of the group.
BareAmount(S) == IF S = {} THEN 0 ELSE (CHOOSE x \in S : TRUE).amount

RECURSIVE SumAmount(_)
\* SUM(amount) over the rows of a group
SumAmount(S) ==
    IF S = {} THEN 0
    ELSE LET r == CHOOSE x \in S : TRUE
         IN  (IF Numeric(r.amount) THEN r.amount ELSE 0) + SumAmount(S \ {r})

\* SELECT type, SUM(amount) as total, COUNT(*) as count ... GROUP BY type:
\* one result row for every type that has rows.
GroupByType(T) ==
    {[type |-> k,
      total |-> SumAmount({r \in T : r.type = k}),
      count |-> Cardinality({r \in T : r.type = k})] : k \in {r.type : r \in T}}

\* The loop without its test of row['type']: the total of any result row.
TotalOfAnyRow(results, type) ==
    IF results = {} THEN 0 ELSE (CHOOSE g \in results : TRUE).total

\* The total and the count that the loop of get_summary leaves in the
\* summary for a type: those of the result row of that type, or the 0.0
\* and 0 the summary starts with.
TotalOf(results, type) ==
    IF \E g \in results : g.type = type
    THEN (CHOOSE g \in results : g.type = type).total
    ELSE 0

CountOf(results, type) ==
    IF \E g \in results : g.type = type
    THEN (CHOOSE g \in results : g.type = type).count
    ELSE 0

\* The dict get_summary returns for the result rows of its query.
SummaryOf(results) ==
    LET total_income == TotalOf(results, "income")
        total_expenses == TotalOf(results, "expense")
        income_count == CountOf(results, "income")
        expense_count == CountOf(results, "expense")
    IN  [total_income |-> total_income,
         total_expenses |-> total_expenses,
         net_balance |-> total_income - total_expenses,
         income_count |-> income_count,
         expense_count |-> expense_count,
         total_transactions |-> income_count + expense_count]

\* The place of a text value under the BINARY collation of SQLite.
Collation(text) ==
    CASE text = "Food" -> 1
      [] text = "Rent" -> 2
      [] text = "Salary" -> 3
      [] text = "bogus" -> 4
      [] text = "expense" -> 5
      [] text = "income" -> 6

GroupByTypeCategoryUngrouped(T) ==
    {[type |-> r.type, category |-> r.category, total |-> r.amount,
      count |-> 1] : r \in T}

\* SELECT type, category, SUM(amount) as total, COUNT(*) as count ...
\* GROUP BY type, category: one result row for every pair that has rows.
GroupByTypeCategory(T) ==
    {[type |-> k[1], category |-> k[2],
      total |-> SumAmount({r \in T : r.type = k[1] /\ r.category = k[2]}),
      count |-> Cardinality({r \in T : r.type = k[1] /\ r.category = k[2]})] :
        k \in {<<r.type, r.category>> : r \in T}}

GroupBeforeAscending(a, b) ==
    \/ a.total < b.total
    \/ /\ a.total = b.total
       /\ \/ Collation(a.type) < Collation(b.type)
          \/ /\ a.type = b.type
             /\ Collation(a.category) < Collation(b.category)

\* ORDER BY total DESC over the groups; SQLite sorts the groups as it
\* forms them, by type and category, so that is the order of groups with
\* equal totals.
GroupBefore(a, b) ==
    \/ a.total > b.total
    \/ /\ a.total = b.total
       /\ \/ Collation(a.type) < Collation(b.type)
          \/ /\ a.type = b.type
             /\ Collation(a.category) < Collation(b.category)

RECURSIVE OrderByTotal(_)
OrderByTotal(G) ==
    IF G = {} THEN <<>>
    ELSE LET g == CHOOSE x \in G : \A y \in G \ {x} : GroupBefore(x, y)
         IN  <<g>> \o OrderByTotal(G \ {g})

RECURSIVE Entries(_, _)
\* categories[row['type']].append({'category', 'total', 'count'}) for the
\* result rows in their order: the entries of one type.
Entries(results, type) ==
    IF results = <<>> THEN <<>>
    ELSE LET row == Head(results)
         IN  (IF row.type = type
              THEN <<[category |-> row.category, total |-> row.total,
                      count |-> row.count]>>
              ELSE <<>>) \o Entries(Tail(results), type)

\* The dict get_category_summary returns for the result rows of its query.
CategoriesOf(results) ==
    [income |-> Entries(results, "income"),
     expense |-> Entries(results, "expense")]

----------------------------------------------------------------------------
(* Patches of update_transaction: a dict with the keys in `keys`; the value *)
(* of a key that is absent is not looked at and kept at a fixed filler.     *)

AllowedFields == {"type", "amount", "category", "description", "date"}

NoPatch == [keys |-> {}, type |-> "income", amount |-> 10, category |-> "Food",
            description |-> "", date |-> 1]

Patches ==
    {p \in [keys : SUBSET AllowedFields, type : Kinds, amount : Amounts,
            category : Categories, description : Descriptions, date : Dates] :
        /\ "type" \notin p.keys => p.type = NoPatch.type
        /\ "amount" \notin p.keys => p.amount = NoPatch.amount
        /\ "category" \notin p.keys => p.category = NoPatch.category
        /\ "description" \notin p.keys => p.description = NoPatch.description
        /\ "date" \notin p.keys => p.date = NoPatch.date}

\* A patch that carries the keys `id` and `created_at` among its keys, which
\* allowed_fields does not hold.
WithForeignKeys(p, foreign, id, created_at) ==
    [keys |-> p.keys \cup foreign, type |-> p.type, amount |-> p.amount,
     category |-> p.category, description |-> p.description, date |-> p.date,
     id |-> id, created_at |-> created_at]

\* SET over every key of the patch, `id` and `created_at` too.
SetFieldsOfAnyKey(row, p) ==
    [id |-> IF "id" \in p.keys THEN p.id ELSE row.id,
     type |-> IF "type" \in p.keys THEN p.type ELSE row.type,
     amount |-> IF "amount" \in p.keys THEN p.amount ELSE row.amount,
     category |-> IF "category" \in p.keys THEN p.category ELSE row.category,
     description |-> IF "description" \in p.keys THEN p.description
                     ELSE row.description,
     date |-> IF "date" \in p.keys THEN p.date ELSE row.date,
     created_at |-> IF "created_at" \in p.keys THEN p.created_at
                    ELSE row.created_at]

\* UPDATE transactions SET <the allowed fields of the patch> WHERE id = ?
SetFields(row, p) ==
    [id |-> row.id,
     type |-> IF "type" \in p.keys THEN p.type ELSE row.type,
     amount |-> IF "amount" \in p.keys THEN p.amount ELSE row.amount,
     category |-> IF "category" \in p.keys THEN p.category ELSE row.category,
     description |-> IF "description" \in p.keys THEN p.description
                     ELSE row.description,
     date |-> IF "date" \in p.keys THEN p.date ELSE row.date,
     created_at |-> row.created_at]

----------------------------------------------------------------------------
(* The record of the last call *)

Call(op, id, tx, patch, limit, status, ret, list) ==
    [op |-> op, id |-> id, tx |-> tx, patch |-> patch, limit |-> limit,
     status |-> status, ret |-> ret, list |-> list]

\* The record of a call of an aggregate: the dict it returned.
View(op, status, result) == [op |-> op, status |-> status, result |-> result]

Init ==
    /\ table = {}
    /\ seq = 0
    /\ now = 1
    /\ locked = FALSE
    /\ issued = {}
    /\ last = Call("init", NoId, NoTx, NoPatch, NoLimit, "ok", NoTx, <<>>)

----------------------------------------------------------------------------
(* class ExpenseDatabase *)

\* add_transaction(Transaction(type, amount, category, description, date)),
\* as the route /add calls it; cap bounds the rows ever inserted.
add_transaction(type, amount, category, description, date, cap) ==
    LET tx == Transaction(NoId, type, amount, category, description, date,
                          NoStamp, now)
        row == [tx EXCEPT !.id = NextRowId]
    IN  /\ seq < cap
        /\ IF ~Numeric(amount)
           THEN \* float(amount) raises in Transaction.__init__
                /\ last' = Call("add", NoId, tx, NoPatch, NoLimit,
                                "ValueError", NoTx, <<>>)
                /\ UNCHANGED <<table, seq, locked, issued>>
           ELSE IF locked
           THEN \* the INSERT waits for the write lock and gives up
                /\ last' = Call("add", NoId, tx, NoPatch, NoLimit,
                                "OperationalError", NoTx, <<>>)
                /\ UNCHANGED <<table, seq, locked, issued>>
           ELSE IF ~CheckType(tx.type)
           THEN \* the INSERT raises and the connection is never closed
                /\ locked' = TRUE
                /\ last' = Call("add", NoId, tx, NoPatch, NoLimit,
                                "IntegrityError", NoTx, <<>>)
                /\ UNCHANGED <<table, seq, issued>>
           ELSE /\ table' = table \cup {row}
                /\ seq' = row.id
                /\ issued' = issued \cup {row.id}
                /\ last' = Call("add", row.id, tx, NoPatch, NoLimit, "ok",
                                row, <<>>)
                /\ UNCHANGED locked
        /\ UNCHANGED now

\* update_transaction(transaction_id, transaction_data)
update_transaction(id, p) ==
    /\ IF p.keys \cap AllowedFields = {}
       THEN \* `if not fields: return None`
            /\ last' = Call("update", id, NoTx, p, NoLimit, "none", NoTx, <<>>)
            /\ UNCHANGED <<table, locked>>
       ELSE IF locked
       THEN \* the UPDATE waits for the write lock and gives up
            /\ last' = Call("update", id, NoTx, p, NoLimit,
                            "OperationalError", NoTx, <<>>)
            /\ UNCHANGED <<table, locked>>
       ELSE IF ~Exists(id)
       THEN \* rowcount = 0
            /\ last' = Call("update", id, NoTx, p, NoLimit, "none", NoTx, <<>>)
            /\ UNCHANGED <<table, locked>>
       ELSE LET new == SetFields(RowOf(id), p)
            IN  IF ~CheckType(new.type)
                THEN \* the UPDATE raises and the connection is never closed
                     /\ locked' = TRUE
                     /\ last' = Call("update", id, NoTx, p, NoLimit,
                                     "IntegrityError", NoTx, <<>>)
                     /\ UNCHANGED table
                ELSE IF ~Numeric(new.amount)
                THEN \* the UPDATE is committed, then float(amount) raises
                     \* in get_transaction_by_id
                     /\ table' = (table \ {RowOf(id)}) \cup {new}
                     /\ last' = Call("update", id, NoTx, p, NoLimit,
                                     "ValueError", NoTx, <<>>)
                     /\ UNCHANGED locked
                ELSE /\ table' = (table \ {RowOf(id)}) \cup {new}
                     /\ last' = Call("update", id, NoTx, p, NoLimit, "ok",
                                     FromRow(new, now), <<>>)
                     /\ UNCHANGED locked
    /\ UNCHANGED <<seq, now, issued>>

\* delete_transaction(transaction_id)
delete_transaction(id) ==
    /\ IF locked
       THEN \* the DELETE waits for the write lock and gives up
            /\ last' = Call("delete", id, NoTx, NoPatch, NoLimit,
                            "OperationalError", NoTx, <<>>)
            /\ UNCHANGED table
       ELSE /\ table' = {r \in table : r.id # id}
            /\ last' = Call("delete", id, NoTx, NoPatch, NoLimit,
                            IF Exists(id) THEN "true" ELSE "false", NoTx, <<>>)
    /\ UNCHANGED <<seq, now, locked, issued>>

\* get_transaction_by_id(transaction_id)
get_transaction_by_id(id) ==
    /\ last' = IF ~Exists(id)
               THEN Call("get", id, NoTx, NoPatch, NoLimit, "none", NoTx, <<>>)
               ELSE IF ~Numeric(RowOf(id).amount)
               THEN \* float(amount) raises in Transaction.__init__
                    Call("get", id, NoTx, NoPatch, NoLimit, "ValueError", NoTx,
                         <<>>)
               ELSE Call("get", id, NoTx, NoPatch, NoLimit, "ok",
                         FromRow(RowOf(id), now), <<>>)
    /\ UNCHANGED <<table, seq, now, locked, issued>>

\* get_all_transactions(limit)
get_all_transactions(limit) ==
    /\ \E s \in Ordered(table) :
          LET rows == Limited(s, limit)
          IN  last' = IF \E i \in 1..Len(rows) : ~Numeric(rows[i].amount)
                      THEN \* float(amount) raises in Transaction.__init__
                           Call("list", NoId, NoTx, NoPatch, limit,
                                "ValueError", NoTx, <<>>)
                      ELSE Call("list", NoId, NoTx, NoPatch, limit, "ok", NoTx,
                                [i \in 1..Len(rows) |-> FromRow(rows[i], now)])
    /\ UNCHANGED <<table, seq, now, locked, issued>>

\* A summary of the rows a listing with LIMIT 2 would show.
get_summary_of_listed ==
    /\ \E s \in Ordered(table) :
          LET rows == Limited(s, 2)
          IN  last' = View("summary", "ok",
                    SummaryOf(GroupByType({rows[i] : i \in 1..Len(rows)})))
    /\ UNCHANGED <<table, seq, now, locked, issued>>

\* get_summary(): a read, which a leaked write lock does not stop.
get_summary ==
    /\ last' = View("summary", "ok", SummaryOf(GroupByType(table)))
    /\ UNCHANGED <<table, seq, now, locked, issued>>

\* get_category_summary()
get_category_summary ==
    /\ last' = View("categories", "ok",
                    CategoriesOf(OrderByTotal(GroupByTypeCategory(table))))
    /\ UNCHANGED <<table, seq, now, locked, issued>>

\* Time passes between two calls.
Tick ==
    /\ now < MaxNow
    /\ now' = now + 1
    /\ UNCHANGED <<table, seq, locked, issued, last>>

\* The garbage collector finalises the leaked connection, which rolls its
\* transaction back and releases the write lock.
Collect ==
    /\ locked
    /\ locked' = FALSE
    /\ UNCHANGED <<table, seq, now, issued, last>>

----------------------------------------------------------------------------
(* Spec: the life of the store.  Records are created with either kind, or *)
(* with a kind the table refuses, dated today or on day 1; the category    *)
(* and the description come with the kind.  Patches carry the kind or      *)
(* nothing.                                                                *)

CategoryOf(type) == IF type = "income" THEN "Salary" ELSE "Food"
DescriptionOf(type) == IF type = "expense" THEN "lunch" ELSE ""

KindPatches == {p \in Patches : p.keys \subseteq {"type"}}

Next ==
    \/ \E type \in Kinds, date \in {EmptyDate, 1} :
            add_transaction(type, 10, CategoryOf(type), DescriptionOf(type),
                            date, MaxId)
    \/ \E id \in Ids(MaxId), p \in KindPatches : update_transaction(id, p)
    \/ \E id \in Ids(MaxId) : delete_transaction(id)
    \/ \E id \in Ids(MaxId) : get_transaction_by_id(id)
    \/ Tick
    \/ Collect

Spec == Init /\ [][Next]_vars

----------------------------------------------------------------------------
(* SpecFields: a record and every combination of patched fields.  The      *)
(* record is created as an income and then edited with patches over all    *)
(* five allowed fields.                                                    *)

FieldPatches ==
    {p \in Patches :
        /\ "type" \in p.keys => p.type \in {"expense", "bogus"}
        /\ "amount" \in p.keys => p.amount = -5
        /\ "category" \in p.keys => p.category = "Rent"
        /\ "description" \in p.keys => p.description = "edited"
        /\ "date" \in p.keys => p.date \in {EmptyDate, 3}}

NextFields ==
    \/ \E amount \in Amounts, date \in {EmptyDate, 1} :
            add_transaction("income", amount, "Salary", "", date, MaxEdited)
    \/ \E id \in Ids(MaxEdited), p \in FieldPatches : update_transaction(id, p)
    \/ \E id \in Ids(MaxEdited) : delete_transaction(id)
    \/ \E id \in Ids(MaxEdited) : get_transaction_by_id(id)
    \/ Tick
    \/ Collect

SpecFields == Init /\ [][NextFields]_vars

----------------------------------------------------------------------------
(* SpecList: the listing.  Expenses are created on three days in any       *)
(* order, re-dated (also to the empty date), deleted and listed with and   *)
(* without a limit.                                                        *)

DatePatches ==
    {p \in Patches : p.keys \subseteq {"date"} /\ p.date \in {EmptyDate, 2}}

NextList ==
    \/ \E date \in {1, 2, 3} :
            add_transaction("expense", 10, "Food", "", date, MaxListed)
    \/ \E id \in Ids(MaxListed), p \in DatePatches : update_transaction(id, p)
    \/ \E id \in Ids(MaxListed) : delete_transaction(id)
    \/ \E limit \in Limits : get_all_transactions(limit)
    \/ Tick

SpecList == Init /\ [][NextList]_vars

----------------------------------------------------------------------------
(* SpecSummary: the aggregates.  Incomes and expenses of two amounts in two *)
(* categories are created, moved to the other kind, re-priced, deleted and  *)
(* summed up, also while a refused create holds the write lock.            *)

SummedAmounts == {3, 10}
SummedCategories == {"Food", "Salary"}

SummedPatches ==
    {p \in Patches :
        /\ p.keys # {}
        /\ p.keys \subseteq {"type", "amount"}
        /\ p.type \in ValidKinds
        /\ p.amount = 10}

NextSummary ==
    \/ \E type \in ValidKinds, amount \in SummedAmounts,
          category \in SummedCategories :
            add_transaction(type, amount, category, "", 1, MaxSummed)
    \/ add_transaction("bogus", 10, "Food", "", 1, MaxSummed)
    \/ \E id \in Ids(MaxSummed), p \in SummedPatches : update_transaction(id, p)
    \/ \E id \in Ids(MaxSummed) : delete_transaction(id)
    \/ get_summary
    \/ get_category_summary
    \/ Collect

SpecSummary == Init /\ [][NextSummary]_vars

----------------------------------------------------------------------------
(* SpecStamp: the identity of a record.  Incomes are created at different  *)
(* times and patched with dicts that carry `id` and `created_at`, alone or  *)
(* beside the category.                                                     *)

StampPatches ==
    {WithForeignKeys(p, foreign, 1, MaxNow) :
        p \in {q \in Patches : q.keys \subseteq {"category"}
                                /\ q.category = "Rent"},
        foreign \in SUBSET {"id", "created_at"}}

NextStamp ==
    \/ add_transaction("income", 10, "Salary", "", 1, MaxStamped)
    \/ \E id \in Ids(MaxStamped), p \in StampPatches : update_transaction(id, p)
    \/ \E id \in Ids(MaxStamped) : delete_transaction(id)
    \/ \E id \in Ids(MaxStamped) : get_transaction_by_id(id)
    \/ Tick

SpecStamp == Init /\ [][NextStamp]_vars

----------------------------------------------------------------------------
(* SpecInvalid: patches of several fields.  Incomes of 3 are created and   *)
(* patched with an amount and a category together: both valid, or the      *)
(* amount negative, or the amount not a number, or with a kind the table   *)
(* refuses beside them.                                                    *)

ValidPatch ==
    [NoPatch EXCEPT !.keys = {"amount", "category"}, !.amount = 10,
                    !.category = "Rent"]

InvalidPatches ==
    {ValidPatch,
     [ValidPatch EXCEPT !.amount = -5],
     [ValidPatch EXCEPT !.amount = NotANumber],
     [ValidPatch EXCEPT !.keys = @ \cup {"type"}, !.type = "bogus"]}

NextInvalid ==
    \/ add_transaction("income", 3, "Salary", "", 1, MaxInvalid)
    \/ \E id \in Ids(MaxInvalid), p \in InvalidPatches : update_transaction(id, p)
    \/ \E id \in Ids(MaxInvalid) : delete_transaction(id)
    \/ \E id \in Ids(MaxInvalid) : get_transaction_by_id(id)
    \/ Tick
    \/ Collect

SpecInvalid == Init /\ [][NextInvalid]_vars

----------------------------------------------------------------------------
(* Properties of the store *)

Raised == {"IntegrityError", "OperationalError", "ValueError"}

\* The step is a call of op (a call that repeats the last call with the
\* same outcome leaves every variable as it is).
Called(op) == last' # last /\ last'.op = op

\* C1: a create with a negative amount fails and persists nothing, so every
\* stored record has amount >= 0.
C1_NegativeCreateRejected ==
    /\ (last.op = "add" /\ last.tx.amount < 0 => last.status \in Raised)
    /\ \A r \in table : r.amount >= 0

\* C2: a create whose kind is neither income nor expense fails with an error
\* and persists nothing, and every stored record has kind income or expense.
C2_BogusKindRejected ==
    [][/\ \A r \in table' : r.type \in ValidKinds
       /\ Called("add") /\ last'.tx.type \notin ValidKinds
            => last'.status \in Raised /\ table' = table]_vars

C2_Witness ==
    /\ last.op = "add"
    /\ last.tx.type = "bogus"
    /\ last.status = "IntegrityError"
    /\ table # {}

\* C3: the id a successful create assigns was never assigned by an earlier
\* create, also not to a record deleted since, and no two stored records
\* share an id.
C3_IdsNeverReused ==
    [][Called("add") /\ last'.status = "ok"
            => /\ last'.id \notin issued
               /\ \A r1, r2 \in table' : r1.id = r2.id => r1 = r2]_vars

C3_Witness ==
    /\ last.op = "add"
    /\ last.status = "ok"
    /\ \E i \in issued : i < last.id /\ ~Exists(i)

\* C4: a successful update of an existing record replaces exactly the
\* fields the patch carries and leaves the others as they were, and the
\* record it returns equals the record stored after the update.
C4_UpdateReplacesPatchedFields ==
    [][(Called("update") /\ Exists(last'.id) /\ last'.status = "ok")
            => LET old == RowOf(last'.id)
                   new == CHOOSE r \in table' : r.id = last'.id
                   p == last'.patch
               IN  /\ new.type = IF "type" \in p.keys THEN p.type ELSE old.type
                   /\ new.amount =
                        IF "amount" \in p.keys THEN p.amount ELSE old.amount
                   /\ new.category =
                        IF "category" \in p.keys THEN p.category
                        ELSE old.category
                   /\ new.description =
                        IF "description" \in p.keys THEN p.description
                        ELSE old.description
                   /\ new.date = IF "date" \in p.keys THEN p.date ELSE old.date
                   /\ last'.ret = new]_vars

\* C5: update of a missing id with a non-empty patch and update of an
\* existing id with an empty patch never give the caller the same result.
C5_NotFoundDistinctFromEmptyPatch ==
    [][(/\ last.op = "update" /\ last.patch.keys = {} /\ Exists(last.id)
        /\ Called("update") /\ last'.patch.keys # {} /\ ~Exists(last'.id))
            => <<last'.status, last'.ret>> # <<last.status, last.ret>>]_vars

\* C6: an update that sets a negative amount on an existing record fails
\* and leaves the stored record unchanged.
C6_NegativeUpdateRejected ==
    [][(/\ Called("update") /\ Exists(last'.id)
        /\ "amount" \in last'.patch.keys /\ last'.patch.amount < 0)
            => last'.status \in Raised /\ table' = table]_vars

\* The stored record a listed Transaction was built from.
Stored(tx) == CHOOSE r \in table : r.id = tx.id

\* C7: list(limit) with a limit n >= 0, n = 0 included, returns the first
\* min(n, number of stored records) records of the full listing.
C7_LimitIsHeadOfListing ==
    (last.op = "list" /\ last.limit # NoLimit)
        => /\ Len(last.list) = Min(last.limit, Cardinality(table))
           /\ \E s \in Listings(table) :
                /\ \A i, j \in 1..Len(s) : i < j =>
                        \/ s[i].date > s[j].date
                        \/ s[i].date = s[j].date
                           /\ s[i].created_at >= s[j].created_at
                /\ \A i \in 1..Len(last.list) : last.list[i].id = s[i].id

C9_CreateGetRoundTrip ==
    [][(/\ last.op = "add" /\ last.status = "ok"
        /\ Called("get") /\ last'.id = last.id)
            => last'.status = "ok" /\ last'.ret = last.ret]_vars

C9_Witness ==
    /\ last.op = "get"
    /\ last.status = "ok"
    /\ last.id = seq
    /\ last.ret.created_at < now
    /\ Cardinality(table) = 2

\* C10: delete of a stored id returns true, delete of an id that is not
\* stored (also one just deleted) returns false, and delete never raises.
C10_DeleteIdempotent ==
    [][Called("delete")
            => last'.status = (IF Exists(last'.id) THEN "true" ELSE "false")]_vars

----------------------------------------------------------------------------
(* Properties of the aggregates *)

\* C11: after any sequence of creates, updates and deletes the total count
\* of the summary equals its income count plus its expense count and equals
\* the number of records stored.
C11_SumInvariant ==
    last.op = "summary"
        => /\ last.result.total_transactions
                = last.result.income_count + last.result.expense_count
           /\ last.result.total_transactions = Cardinality(table)

\* Three creates, a delete, and both kinds left in the store.
C11_Witness ==
    /\ last.op = "summary"
    /\ seq = 3
    /\ Cardinality(table) = 2
    /\ last.result.income_count = 1
    /\ last.result.expense_count = 1

RECURSIVE AmountsUpTo(_, _)
\* The amounts of the stored records of a kind with an id up to n, added up
\* record by record.
AmountsUpTo(n, kind) ==
    IF n = 0 THEN 0
    ELSE (IF Exists(n) /\ RowOf(n).type = kind THEN RowOf(n).amount ELSE 0)
         + AmountsUpTo(n - 1, kind)

\* C12: the total income of the summary is the sum of the amounts of the
\* stored incomes, the total expense that of the stored expenses, and the two
\* counts are the numbers of such records, after any creates, updates (of
\* the kind or the amount too) and deletes.
C12_TotalsAreSums ==
    last.op = "summary"
        => /\ last.result.total_income = AmountsUpTo(seq, "income")
           /\ last.result.total_expenses = AmountsUpTo(seq, "expense")
           /\ last.result.income_count
                = Cardinality({r \in table : r.type = "income"})
           /\ last.result.expense_count
                = Cardinality({r \in table : r.type = "expense"})

\* An income of 10 and an expense of 3 are stored: totals 10 and 3, net
\* balance 7, counts 1, 1 and 2.
C12_Witness ==
    /\ last.op = "summary"
    /\ last.result = [total_income |-> 10, total_expenses |-> 3,
                      net_balance |-> 7, income_count |-> 1,
                      expense_count |-> 1, total_transactions |-> 2]
    /\ seq = 2
    /\ ~locked

\* C13: in every reachable state the net balance of the summary is its
\* total income minus its total expense, and a kind without stored records
\* (in the empty ledger, in a ledger emptied by deletes, in a ledger of one
\* kind only) has total 0 and count 0.
C13_NetBalance ==
    last.op = "summary"
        => /\ last.result.net_balance
                = last.result.total_income - last.result.total_expenses
           /\ (\A r \in table : r.type # "income")
                => last.result.total_income = 0 /\ last.result.income_count = 0
           /\ (\A r \in table : r.type # "expense")
                => /\ last.result.total_expenses = 0
                   /\ last.result.expense_count = 0
           /\ table = {} => last.result.net_balance = 0
                             /\ last.result.total_transactions = 0

\* The summary of a ledger that two deletes have emptied.
C13_Witness ==
    /\ last.op = "summary"
    /\ table = {}
    /\ seq = 2
    /\ last.result.net_balance = 0

RECURSIVE SumCounts(_)
\* The counts of a sequence of groups, added up.
SumCounts(s) == IF s = <<>> THEN 0 ELSE Head(s).count + SumCounts(Tail(s))

\* C14: in the category summary every stored record is counted in exactly
\* one group of its kind and category, a category appears at most once in the
\* sequence of a kind, and the counts of the groups of a kind add up to the
\* count of that kind in the summary.
C14_CategoryPartition ==
    last.op = "categories"
        => /\ \A r \in table :
                LET s == last.result[r.type]
                    own == {i \in 1..Len(s) : s[i].category = r.category}
                IN  /\ Cardinality(own) = 1
                    /\ \A i \in own :
                          s[i].count = Cardinality({x \in table :
                                /\ x.type = r.type
                                /\ x.category = r.category})
           /\ \A k \in ValidKinds :
                \A i, j \in 1..Len(last.result[k]) :
                    i # j => last.result[k][i].category
                                # last.result[k][j].category
           /\ SumCounts(last.result.income)
                = SummaryOf(GroupByType(table)).income_count
           /\ SumCounts(last.result.expense)
                = SummaryOf(GroupByType(table)).expense_count

\* Three incomes in two categories, two of them in the same one.
C14_Witness ==
    /\ last.op = "categories"
    /\ Cardinality(table) = 3
    /\ Len(last.result.income) = 2
    /\ \E i \in 1..2 : last.result.income[i].count = 2
    /\ last.result.expense = <<>>

\* C15: in the category summary the sequence of the incomes and that of the
\* expenses are each sorted by total, largest first.
C15_SortedByTotal ==
    last.op = "categories"
        => \A k \in ValidKinds :
                \A i, j \in 1..Len(last.result[k]) :
                    i < j => last.result[k][i].total >= last.result[k][j].total

\* The income groups Salary (10) and Food (3) come in the order of their
\* totals, against the order of their names, with an expense group stored
\* too.
C15_Witness ==
    /\ last.op = "categories"
    /\ last.result.income = <<[category |-> "Salary", total |-> 10, count |-> 1],
                              [category |-> "Food", total |-> 3, count |-> 1]>>
    /\ Len(last.result.expense) = 1

----------------------------------------------------------------------------
(* Properties of the identity and the frame of a record *)

\* C16: the id and the recordedAt of a stored record never change: create
\* stores the recordedAt it returns, no call changes the recordedAt stored
\* under an id, an update (also one whose patch carries id or recordedAt)
\* leaves the set of stored ids as it is and returns the record under its id
\* and stored recordedAt, and get(id) returns that id and recordedAt.
C16_IdAndStampImmutable ==
    [][/\ \A r \in table : \A x \in table' :
            x.id = r.id => x.created_at = r.created_at
       /\ (Called("add") /\ last'.status = "ok")
            => \E x \in table' : /\ x.id = last'.ret.id
                                 /\ x.created_at = last'.ret.created_at
                                 /\ x.id \notin {r.id : r \in table}
       /\ Called("update")
            => /\ {x.id : x \in table'} = {r.id : r \in table}
               /\ last'.status = "ok"
                    => /\ last'.ret.id = last'.id
                       /\ last'.ret.created_at = RowOf(last'.id).created_at
       /\ (Called("get") /\ last'.status = "ok")
            => /\ last'.ret.id = last'.id
               /\ last'.ret.created_at = RowOf(last'.id).created_at]_vars

\* An update whose patch carries another id and another recordedAt beside a
\* category has succeeded on the second record.
C16_Witness ==
    /\ last.op = "update"
    /\ last.status = "ok"
    /\ {"id", "created_at", "category"} \subseteq last.patch.keys
    /\ last.id = 2
    /\ last.ret.id = 2
    /\ last.ret.category = "Rent"
    /\ last.ret.created_at # last.patch.created_at

\* C17: the summary and the category summary never fail, also not while a
\* failed write holds the lock, count every stored record, leave the store
\* as it is, and return what the call before returned when that was the
\* same call and the store has not changed since.
C17_AggregatesArePure ==
    [][/\ (Called("summary") \/ Called("categories"))
            => /\ last'.status = "ok"
               /\ table' = table
               /\ seq' = seq
       /\ Called("summary")
            => last'.result.total_transactions = Cardinality(table)
       /\ Called("categories")
            => SumCounts(last'.result.income) + SumCounts(last'.result.expense)
                    = Cardinality(table)
       /\ (last'.op \in {"summary", "categories"} /\ last'.op = last.op
            /\ table' = table)
            => last'.result = last.result]_vars

\* A summary of two stored records taken while the write lock is held.
C17_Witness ==
    /\ last.op = "summary"
    /\ last.status = "ok"
    /\ locked
    /\ last.result.total_transactions = 2
    /\ Cardinality(table) = 2

\* C18: a failed update applies none of its fields: when an update of an
\* existing record with a patch of several fields fails, every stored record
\* is as it was before the call.
C18_FailedUpdateAppliesNothing ==
    [][(/\ Called("update") /\ Exists(last'.id)
        /\ last'.status \in Raised)
            => table' = table]_vars

\* C19: delete(id) changes no record but the one with that id, removes it
\* when it returns true and removes nothing otherwise; update(id, patch)
\* changes no record but the one with that id and never the number of
\* stored records; and an id whose record was deleted is never stored
\* again, so that get(id) reports not-found from then on.
C19_DeleteIsPermanent ==
    [][/\ Called("delete")
            => /\ \A r \in table : r.id # last'.id => r \in table'
               /\ table' \subseteq table
               /\ last'.status = "true"
                    => Exists(last'.id) /\ last'.id \in issued
                       /\ table' = {r \in table : r.id # last'.id}
               /\ last'.status # "true" => table' = table
       /\ Called("update")
            => /\ \A r \in table : r.id # last'.id => r \in table'
               /\ \A x \in table' : x.id # last'.id => x \in table
               /\ Cardinality(table') = Cardinality(table)
       /\ \A id \in issued :
            ~Exists(id) => \A x \in table' : x.id # id
       /\ (Called("get") /\ last'.id \in issued /\ ~Exists(last'.id))
            => last'.status = "none"]_vars

\* get(1) reports not-found after record 1 was deleted and record 2 was
\* created.
C19_Witness ==
    /\ last.op = "get"
    /\ last.id = 1
    /\ last.status = "none"
    /\ 1 \in issued
    /\ {r.id : r \in table} = {2}

====
